---- MODULE Spec2Model ----
(***************************************************************************)
(* Clan bot (bot.py): the record store kept in a GitHub JSON file, the     *)
(* authorization document, and the per-user conversation flows (add        *)
(* account, edit account) driven by Telegram updates.                      *)
(*                                                                         *)
(* One action per update handler.  Handlers run to completion one at a     *)
(* time (python-telegram-bot handles updates sequentially and every store  *)
(* call is a blocking requests call), so each handler is one atomic step.  *)
(* A text is a sequence of one-character strings, so that strip(),         *)
(* lower(), replace(",", "") and int() are computed, not assumed.          *)
(*                                                                         *)
(* Every handler is an operator that maps the state and the update to the  *)
(* handler's Result, and an action that applies that Result.  Spec is the  *)
(* deployment in which the other user goes through the flows, SpecOwner    *)
(* the one in which the owner does, and SpecRace has two writers of the    *)
(* record document, one of them between the load and the save of           *)
(* add_user_account while the other writes.  SpecMixed, SpecStale and      *)
(* SpecPages are the owner alone: with several flows pending together,     *)
(* pressing the buttons of old messages, and paging through a list longer  *)
(* than a page.                                                            *)
(***************************************************************************)
EXTENDS Integers, Sequences, FiniteSets, TLC

\* ------------------------------------------------------------------ bounds

\* ADMIN_USER_ID, the configured owner (bot.py:57); the value is the deployment's.
Owner == 1

\* Telegram users that send updates: the owner and one other user.
Member == Owner + 1
Users == {Owner, Member}

\* retries=3, the default of save_data_with_retry (bot.py:250).
Retries == 3

\* The texts users send: an account name in two spellings, and two numbers,
\* one of them written with a thousands separator.
TFoo == <<"F", "o", "o">>
Tfoo == <<"f", "o", "o">>
TZero == <<"0">>
TNum == <<"1", ",", "0", "0", "0">>

\* What users type when asked for a username, and otherwise (when asked for
\* a number, or unasked): the last holds a text that is no number.
NameTexts == {TFoo, Tfoo, TZero}
NumberTexts == {TFoo, TZero, TNum}
Texts == NameTexts \cup NumberTexts

\* What can go wrong with the backend while one update is handled: nothing,
\* the reads (GET) of the authorization file fail, its writes (PUT) fail, the
\* reads of the data file fail, its writes answer 409, or fail otherwise.
Faults == {"none", "auth_load", "auth_save", "data_load", "data_conflict", "data_error"}

\* ------------------------------------------------------------------ texts

UpperChars == <<"A","B","C","D","E","F","G","H","I","J","K","L","M",
                "N","O","P","Q","R","S","T","U","V","W","X","Y","Z">>
LowerChars == <<"a","b","c","d","e","f","g","h","i","j","k","l","m",
                "n","o","p","q","r","s","t","u","v","w","x","y","z">>
DigitChars == <<"0","1","2","3","4","5","6","7","8","9">>

\* str.lower() on one character.
LowerChar(c) ==
    IF \E i \in 1..Len(UpperChars) : UpperChars[i] = c
    THEN LowerChars[CHOOSE i \in 1..Len(UpperChars) : UpperChars[i] = c]
    ELSE c

\* str.lower()
Lower(t) == [i \in 1..Len(t) |-> LowerChar(t[i])]

IsSpace(c) == c \in {" ", "\t", "\n"}

\* str.strip(): leading and trailing whitespace removed.
RECURSIVE StripLeft(_)
StripLeft(t) == IF t # << >> /\ IsSpace(Head(t)) THEN StripLeft(Tail(t)) ELSE t

RECURSIVE StripRight(_)
StripRight(t) ==
    IF t # << >> /\ IsSpace(t[Len(t)]) THEN StripRight(SubSeq(t, 1, Len(t) - 1)) ELSE t

\* a strip that leaves the trailing white space
StripLeading(t) == StripLeft(t)

Strip(t) == StripRight(StripLeft(t))

\* text.replace(",", "")
IsNotComma(c) == c # ","
RemoveCommas(t) == SelectSeq(t, IsNotComma)

IsDigit(c) == \E i \in 1..Len(DigitChars) : DigitChars[i] = c
DigitVal(c) == (CHOOSE i \in 1..Len(DigitChars) : DigitChars[i] = c) - 1

AllDigits(t) == t # << >> /\ \A i \in 1..Len(t) : IsDigit(t[i])

RECURSIVE DigitsVal(_)
DigitsVal(t) ==
    IF t = << >> THEN 0 ELSE 10 * DigitsVal(SubSeq(t, 1, Len(t) - 1)) + DigitVal(t[Len(t)])

\* int(s) succeeds: an optional sign and at least one decimal digit, whitespace
\* around it ignored (underscores and non-ASCII digits are not among the texts).
IsInt(t) ==
    LET s == Strip(t) IN
    /\ s # << >>
    /\ IF Head(s) \in {"-", "+"} THEN AllDigits(Tail(s)) ELSE AllDigits(s)

\* int(s), for IsInt(s)
IntOf(t) ==
    LET s == Strip(t) IN
    IF Head(s) = "-" THEN 0 - DigitsVal(Tail(s))
    ELSE IF Head(s) = "+" THEN DigitsVal(Tail(s))
    ELSE DigitsVal(s)

\* int(text.replace(",", "")) raises ValueError
ParseFails(t) == ~IsInt(RemoveCommas(t))
\* int(text.replace(",", ""))
ParseValue(t) == IntOf(RemoveCommas(t))

\* An absent value (Python None, a missing dict key) is the empty sequence,
\* a present value v the one-element sequence; an absent text is the empty text.
None == << >>
Some(v) == <<v>>
NoText == << >>
NoStep == "none"

\* ---------------------------------------------------------------- requests

\* What the backend answers to the GET of a file: the file, 404, a status
\* that raise_for_status turns into an HTTPError, a status it lets pass (the
\* function then returns None), no answer, a body that r.json() or the base64
\* decoding rejects, a file whose content is no JSON; and the call made
\* without GITHUB_OWNER or GITHUB_REPO.
GetOutcomes ==
    {"ok", "missing", "http_error", "other_status", "network_error", "bad_body",
     "ok_not_json", "unconfigured"}

\* What it answers to the PUT of a file: 200 or 201, 409, another error
\* status, no answer; and the call made without GITHUB_OWNER or GITHUB_REPO.
PutOutcomes == {"ok", "conflict", "http_error", "network_error", "unconfigured"}

\* the exception _get_file_from_github raises, "none" when it returns
GetRaises(g) ==
    CASE g = "unconfigured" -> "RuntimeError"
      [] g = "network_error" -> "ConnectionError"
      [] g = "bad_body" -> "ValueError"
      [] g = "http_error" -> "HTTPError"
      [] OTHER -> "none"

\* the exception of `content, sha = _get_file_from_github(path)`: a returned
\* None does not unpack
GetError(g) == IF g = "other_status" THEN "TypeError" ELSE GetRaises(g)

\* the exception _put_file_to_github raises, "none" when it returns; the
\* HTTPError of a 409 is the one save_data_with_retry looks for
PutRaises(p) ==
    CASE p = "unconfigured" -> "RuntimeError"
      [] p = "network_error" -> "ConnectionError"
      [] p = "conflict" -> "http409"
      [] p = "http_error" -> "HTTPError"
      [] OTHER -> "none"

\* an except clause that names requests.HTTPError
ExceptHTTPError(e) == e \in {"HTTPError", "http409"}

\* `except Exception as e` catches e: every exception above derives from
\* Exception
ExceptException(e) ==
    e \in {"RuntimeError", "ConnectionError", "ValueError", "TypeError",
           "JSONDecodeError", "HTTPError", "http409"}

\* try: <body raising e, or returning value> except Exception: return fallback
\* -- what the function raises and what it returns
Try(e, value, fallback) ==
    IF e = "none" THEN [raised |-> "none", value |-> value]
    ELSE IF ExceptException(e) THEN [raised |-> "none", value |-> fallback]
    ELSE [raised |-> e, value |-> fallback]

\* The answers of the backend under a fault of Faults, to the GET and the PUT
\* of the data file and of the authorization file.
DataGet(f) == IF f = "data_load" THEN "network_error" ELSE "ok"
DataPut(f) ==
    IF f = "data_conflict" THEN "conflict" ELSE IF f = "data_error" THEN "http_error" ELSE "ok"
AuthGet(exists, f) ==
    IF f = "auth_load" THEN "network_error" ELSE IF exists THEN "ok" ELSE "missing"
AuthPut(f) == IF f = "auth_save" THEN "http_error" ELSE "ok"

\* ------------------------------------------------- authorization document

\* The file GITHUB_AUTH_PATH: absent, or {"authorized_ids", "admin_ids",
\* "user_info"}; user_info is kept as the set of ids that have an entry (an
\* entry holds the user's Telegram names, which are not empty).
NoAuthDoc == [exists |-> FALSE, authorized_ids |-> {}, admin_ids |-> {}, user_info |-> {}]

AuthDocOf(d) ==
    [exists |-> TRUE, authorized_ids |-> d.authorized_ids,
     admin_ids |-> d.admin_ids, user_info |-> d.user_info]

\* initial_data of load_user_data
InitialData == [authorized_ids |-> {Owner}, admin_ids |-> {Owner}, user_info |-> {Owner}]

\* what load_user_data returns from its except branch
FallbackData == [authorized_ids |-> {Owner}, admin_ids |-> {Owner}, user_info |-> {}]

\* the lists as they are stored
StoredLists(d) ==
    [authorized_ids |-> d.authorized_ids, admin_ids |-> d.admin_ids,
     user_info |-> d.user_info]

\* "Asegurar que ADMIN_USER_ID siempre esté en ambas listas"
EnsureOwner(d) ==
    [authorized_ids |-> d.authorized_ids \cup {Owner},
     admin_ids |-> d.admin_ids \cup {Owner},
     user_info |-> d.user_info]

\* load_user_data(): what it raises, the mapping returned and the file
\* afterwards (a missing file is created by the read).
TryLoadUserData(doc, g, p) ==
    LET e == IF GetError(g) # "none" THEN GetError(g)
             ELSE IF g = "missing" THEN PutRaises(p)
             ELSE IF g = "ok_not_json" THEN "JSONDecodeError"
             ELSE "none"
        T == Try(e, IF g = "missing" THEN InitialData ELSE EnsureOwner(doc), FallbackData)
    IN  [raised |-> T.raised, data |-> T.value,
         doc |-> IF g = "missing" /\ e = "none" THEN AuthDocOf(InitialData) ELSE doc]

LoadUserData(doc, f) ==
    LET T == TryLoadUserData(doc, AuthGet(doc.exists, f), AuthPut(f))
    IN  [data |-> T.data, doc |-> T.doc]

\* save_user_data(data): what it raises, its result and the file afterwards.
\* It reads the file for its sha before it writes.
TrySaveUserData(doc, d, g, p) ==
    LET e == IF GetError(g) # "none" THEN GetError(g) ELSE PutRaises(p)
        T == Try(e, TRUE, FALSE)
    IN  [raised |-> T.raised, ok |-> T.value,
         doc |-> IF e = "none" THEN AuthDocOf(d) ELSE doc]

SaveUserData(doc, d, f) ==
    LET T == TrySaveUserData(doc, d, AuthGet(doc.exists, f), AuthPut(f))
    IN  [ok |-> T.ok, doc |-> T.doc]

\* a check that answers from the lists of the first load
IsUserAuthorizedCached(doc, f, u) == u \in InitialData.authorized_ids

\* is_user_authorized(user_id), is_admin(user_id): the answer of the check.
IsUserAuthorized(doc, f, u) == u \in LoadUserData(doc, f).data.authorized_ids
IsAdmin(doc, f, u) == u \in LoadUserData(doc, f).data.admin_ids

\* update_user_info(user_id, username, first_name), with the answers of the
\* backend to the requests of its load_user_data (gl, pl) and to those of its
\* save_user_data (gs, ps): what it raises, its result and the file afterwards.
TryUpdateUserInfo(doc, gl, pl, gs, ps, u) ==
    LET L == TryLoadUserData(doc, gl, pl)
        d == [L.data EXCEPT !.user_info = @ \cup {u}]
    IN  TrySaveUserData(L.doc, d, gs, ps)

\* update_user_info under a fault of Faults: the file afterwards.
UpdateUserInfo(doc, f, u) ==
    TryUpdateUserInfo(doc, AuthGet(doc.exists, f), AuthPut(f),
                      AuthGet(LoadUserData(doc, f).doc.exists, f), AuthPut(f), u).doc

\* get_user_info(user_id) has a first_name
HasFirstName(doc, f, u) == u \in LoadUserData(doc, f).data.user_info

\* an add_authorized_user that puts a new administrator in admin_ids only
AddAdminOnly(doc, f, uid, make_admin) ==
    LET L == LoadUserData(doc, f)
        d2 == IF make_admin THEN [L.data EXCEPT !.admin_ids = @ \cup {uid}]
              ELSE [L.data EXCEPT !.authorized_ids = @ \cup {uid}]
        S == SaveUserData(UpdateUserInfo(L.doc, f, uid), d2, f)
    IN  [ok |-> S.ok, doc |-> S.doc]

\* add_authorized_user(user_id, make_admin, username, first_name): its result
\* and the file afterwards.  The mapping loaded first is saved last, after
\* update_user_info has loaded and saved its own.
AddAuthorizedUser(doc, f, uid, make_admin) ==
    LET L == LoadUserData(doc, f)
        d1 == [L.data EXCEPT !.authorized_ids = @ \cup {uid}]
        d2 == IF make_admin THEN [d1 EXCEPT !.admin_ids = @ \cup {uid}] ELSE d1
        afterInfo == UpdateUserInfo(L.doc, f, uid)
        S == SaveUserData(afterInfo, d2, f)
    IN  [ok |-> S.ok, doc |-> S.doc]

\* ---------------------------------------------------------- record document

\* The file GITHUB_DATA_PATH as parsed: member id -> {"telegram_name",
\* "accounts"}; a missing file reads as the empty mapping.
EmptyDoc == << >>

Account(username, attack, defense) ==
    [username |-> username, attack |-> attack, defense |-> defense]

\* The blob sha GitHub returns with a file: a hash of its content.
Sha(doc) == [blob |-> doc]

\* load_data(): what it raises and what it returns
TryLoadData(doc, g) ==
    LET e == IF GetError(g) # "none" THEN GetError(g)
             ELSE IF g = "ok_not_json" THEN "JSONDecodeError"
             ELSE "none"
    IN  Try(e, IF g = "missing" THEN EmptyDoc ELSE doc, EmptyDoc)

LoadData(doc, f) == TryLoadData(doc, DataGet(f)).value

\* _put_file_to_github(path, content, sha): what it raises and the file
\* afterwards.  A sha that is not the file's is answered with 409.
PutFile(doc, new, sha, p) ==
    IF p = "ok" /\ sha # Sha(doc) THEN [raised |-> "http409", doc |-> doc]
    ELSE IF p = "ok" THEN [raised |-> "none", doc |-> new]
    ELSE [raised |-> PutRaises(p), doc |-> doc]

\* save_data(data): fetches the sha, puts, and turns every exception into
\* False: what it raises, its result and the file afterwards.
TrySaveData(doc, new, g, p) ==
    LET P == PutFile(doc, new, Sha(doc), p)
        e == IF GetError(g) # "none" THEN GetError(g) ELSE P.raised
        T == Try(e, TRUE, FALSE)
    IN  [raised |-> T.raised, ok |-> T.value,
         doc |-> IF GetError(g) # "none" THEN doc ELSE P.doc]

SaveData(doc, new, f) ==
    LET T == TrySaveData(doc, new, DataGet(f), DataPut(f))
    IN  [ok |-> T.ok, raised |-> T.raised, doc |-> T.doc]

\* save_data_with_retry(data, retries): the loop from attempt on.  It returns
\* whatever save_data returns, and goes round again only when save_data
\* raises an HTTPError with status 409.
RECURSIVE SaveLoop(_, _, _, _)
SaveLoop(doc, new, f, attempt) ==
    IF attempt >= Retries THEN [ok |-> FALSE, doc |-> doc, attempts |-> attempt]
    ELSE LET S == SaveData(doc, new, f) IN
         IF S.raised = "none" THEN [ok |-> S.ok, doc |-> S.doc, attempts |-> attempt + 1]
         ELSE IF S.raised = "http409" THEN SaveLoop(S.doc, new, f, attempt + 1)
         ELSE [ok |-> FALSE, doc |-> S.doc, attempts |-> attempt + 1]

SaveDataWithRetry(doc, new, f) == SaveLoop(doc, new, f, 0)

\* the result of a handler that saves nothing
NoSave(doc) == [ok |-> FALSE, doc |-> doc, attempts |-> 0]

\* get_user_accounts(user_id)
AccountsIn(d, u) == IF u \in DOMAIN d THEN d[u].accounts ELSE << >>
GetUserAccounts(doc, f, u) == AccountsIn(LoadData(doc, f), u)

\* a comparison of usernames that minds the case
SameNameExact(a, b) == a = b

\* acc["username"].lower() == username.lower()
SameName(a, b) == Lower(a) = Lower(b)

\* the first index of an account named like username, 0 when there is none
FindAccount(accounts, username) ==
    IF \E i \in 1..Len(accounts) : SameName(accounts[i].username, username)
    THEN CHOOSE i \in 1..Len(accounts) :
            /\ SameName(accounts[i].username, username)
            /\ \A j \in 1..(i - 1) : ~SameName(accounts[j].username, username)
    ELSE 0

\* [acc for acc in accounts if acc["username"].lower() != username.lower()]
RECURSIVE WithoutName(_, _)
WithoutName(accounts, username) ==
    IF accounts = << >> THEN << >>
    ELSE IF SameName(Head(accounts).username, username)
         THEN WithoutName(Tail(accounts), username)
         ELSE <<Head(accounts)>> \o WithoutName(Tail(accounts), username)

\* d[key] = value, for a new or an old key
Put(d, key, value) ==
    [k \in DOMAIN d \cup {key} |-> IF k = key THEN value ELSE d[k]]

\* d.pop(key)
Remove(d, key) == [k \in DOMAIN d \ {key} |-> d[k]]

\* an upsert that appends whether or not the name is taken
UpsertAppends(accounts, account) == Append(accounts, account)

\* an upsert that drops the account of that name and appends the new one
UpsertMovesLast(accounts, account) ==
    Append(WithoutName(accounts, account.username), account)

\* The mapping add_user_account builds from the one it loaded: the member's
\* entry created when missing, the account replaced in place or appended, the
\* telegram_name filled in when it is empty and user_info has a first name.
UpsertAccount(accounts, account) ==
    LET i == FindAccount(accounts, account.username)
    IN  IF i > 0 THEN [accounts EXCEPT ![i] = account] ELSE Append(accounts, account)

AddCompute(d, u, account, hasName) ==
    LET rec == IF u \in DOMAIN d THEN d[u] ELSE [telegram_name |-> "", accounts |-> << >>]
        name == IF rec.telegram_name = "" /\ hasName THEN "first_name" ELSE rec.telegram_name
    IN  Put(d, u, [telegram_name |-> name, accounts |-> UpsertAccount(rec.accounts, account)])

\* add_user_account(user_id, account_data): the save it made; ok is what it
\* returns.
AddUserAccount(doc, adoc, f, u, account) ==
    SaveDataWithRetry(doc,
        AddCompute(LoadData(doc, f), u, account, HasFirstName(adoc, f, u)), f)

\* a delete_user_account that drops the member's entry with its last account
DeletePrunesEmpty(doc, f, u, username) ==
    LET d == LoadData(doc, f)
        accounts == AccountsIn(d, u)
        rest == WithoutName(accounts, username)
        found == u \in DOMAIN d /\ Len(rest) < Len(accounts)
    IN  [returned |-> found,
         save |-> IF found
                  THEN SaveDataWithRetry(doc,
                          IF rest = << >> THEN Remove(d, u)
                          ELSE [d EXCEPT ![u].accounts = rest], f)
                  ELSE NoSave(doc)]

\* a delete_user_account that saves the mapping whether or not it removed
\* an account
DeleteAlwaysSaves(doc, f, u, username) ==
    LET d == LoadData(doc, f)
        accounts == AccountsIn(d, u)
        rest == WithoutName(accounts, username)
        found == u \in DOMAIN d /\ Len(rest) < Len(accounts)
    IN  [returned |-> found,
         save |-> SaveDataWithRetry(doc,
                     IF u \in DOMAIN d THEN [d EXCEPT ![u].accounts = rest] ELSE d, f)]

\* delete_user_account(user_id, username): what it returns, and the save it made.
DeleteUserAccount(doc, f, u, username) ==
    LET d == LoadData(doc, f)
        accounts == AccountsIn(d, u)
        rest == WithoutName(accounts, username)
        found == u \in DOMAIN d /\ Len(rest) < Len(accounts)
    IN  [returned |-> found,
         save |-> IF found
                  THEN SaveDataWithRetry(doc, [d EXCEPT ![u].accounts = rest], f)
                  ELSE NoSave(doc)]

\* ------------------------------------------------------------------- state

VARIABLES
    data,       \* the record document in the GitHub repository
    authDoc,    \* the authorization document in the GitHub repository
    user_data,  \* context.user_data of every user: the session scratch state
    race        \* a second writer inside add_user_account (SpecRace only)

vars == <<data, authDoc, user_data, race>>

NoTemp == [username |-> NoText, attack |-> None]

\* context.user_data with no key set.  add_temp is the dict with its two keys.
EmptySession ==
    [add_step |-> NoStep,
     add_temp |-> NoTemp,
     editing_account |-> NoText,
     edit_step |-> NoStep,
     pending_attack |-> None,
     awaiting_broadcast |-> FALSE,
     accounts_page |-> None]

\* No call of add_user_account is in flight in the second writer.  Otherwise:
\* the caller, the mapping load_data returned (base), the mapping computed
\* from it (new) and, once saved, the file the write replaced and its result.
RaceIdle == [phase |-> "idle", uid |-> Owner, base |-> EmptyDoc, new |-> EmptyDoc,
             replaced |-> EmptyDoc, ok |-> FALSE]

Init ==
    /\ data = EmptyDoc
    /\ authDoc = NoAuthDoc
    /\ user_data = [u \in Users |-> EmptySession]
    /\ race = RaceIdle

\* What a handler does, as a value: the caller's session and the authorization
\* file afterwards, the save it made of the record document (NoSave when it
\* made none) and the reply it sent.
Result(ud, adoc, save, reply) == [ud |-> ud, adoc |-> adoc, save |-> save, reply |-> reply]

\* The handler run by user u takes effect.
Apply(u, R) ==
    /\ data' = R.save.doc
    /\ authDoc' = R.adoc
    /\ user_data' = [user_data EXCEPT ![u] = R.ud]
    /\ UNCHANGED race

\* @restricted, @restricted_callback: R is what the wrapped handler does, given
\* the authorization file as the check left it.
Restricted(ud, doc, adoc, f, u, R) ==
    IF IsUserAuthorized(adoc, f, u) THEN R
    ELSE Result(ud, LoadUserData(adoc, f).doc, NoSave(doc), "denied")

\* ------------------------------------------------------ handle_text_messages

\* handle_broadcast_message_internal: whether it processed the message.
HandleBroadcast(ud, adoc, f, u) == IsAdmin(adoc, f, u) /\ ud.awaiting_broadcast

\* the answer of the add flow to a text that is no integer: "Valor inválido",
\* and the message counts as processed; the session is not touched
InvalidValueAbandons(idle) ==
    [idle EXCEPT !.processed = TRUE, !.reply = "invalid",
                 !.ud = [idle.ud EXCEPT !.add_temp = NoTemp, !.add_step = NoStep]]

InvalidValue(idle) == [idle EXCEPT !.processed = TRUE, !.reply = "invalid"]

\* What the message "Cuenta **{username}** registrada: Ataque {attack:,},
\* Defensa {defense:,}." reports: the values of the account registered.
RegisteredReply(account) ==
    [username |-> account.username, attack |-> account.attack,
     defense |-> account.defense]

\* a clearing that pops add_step and leaves add_temp
AddClearedKeepsTemp(ud) == [ud EXCEPT !.add_step = NoStep]

\* the session after context.user_data.pop("add_temp") and
\* context.user_data.pop("add_step") of the defense step
AddCleared(ud) == [ud EXCEPT !.add_temp = NoTemp, !.add_step = NoStep]

\* a test of the pending fields that looks at the attack only
PendingMissingAttackOnly(temp) == temp.attack = None

\* "if not username or attack is None", on the add_temp popped by the defense
\* step: a username that is missing or empty, or no attack
PendingMissing(temp) == temp.username = NoText \/ temp.attack = None

\* handle_add_account_steps, the function under @restricted: whether it
\* reports the message as processed, and what it does.
AddSteps(ud, doc, adoc, f, u, t) ==
    LET text == Strip(t)
        idle == [processed |-> FALSE, ud |-> ud, save |-> NoSave(doc), reply |-> "none"]
    IN
    IF ud.add_step = NoStep THEN idle
    ELSE IF ud.add_step = "username" THEN
        LET existing == FindAccount(GetUserAccounts(doc, f, u), text) > 0
            ud1 == [ud EXCEPT !.add_temp.username = text]
        IN  IF existing
            THEN [idle EXCEPT !.processed = TRUE, !.reply = "confirm_overwrite",
                              !.ud = [ud1 EXCEPT !.add_step = "confirm_overwrite"]]
            ELSE [idle EXCEPT !.processed = TRUE, !.reply = "ask_attack",
                              !.ud = [ud1 EXCEPT !.add_step = "attack"]]
    ELSE IF ud.add_step = "attack" THEN
        IF ParseFails(text)
        THEN InvalidValue(idle)
        ELSE [idle EXCEPT !.processed = TRUE, !.reply = "ask_defense",
                          !.ud = [ud EXCEPT !.add_temp.attack = Some(ParseValue(text)),
                                            !.add_step = "defense"]]
    ELSE IF ud.add_step = "defense" THEN
        IF ParseFails(text)
        THEN InvalidValue(idle)
        ELSE IF PendingMissing(ud.add_temp)
        THEN [idle EXCEPT !.processed = TRUE, !.reply = "lost",
                          !.ud = AddCleared(ud)]
        ELSE
            LET account == Account(ud.add_temp.username, ud.add_temp.attack[1],
                                   ParseValue(text))
            IN  [idle EXCEPT !.processed = TRUE, !.reply = "registered",
                             !.save = AddUserAccount(doc, adoc, f, u, account),
                             !.ud = AddCleared(ud)]
    ELSE idle

\* handle_add_account_steps as handle_text_messages calls it: the wrapper of
\* @restricted returns None for a user who is not authorized.
HandleAddAccountSteps(ud, doc, adoc, f, u, t) ==
    IF IsUserAuthorized(adoc, f, u) THEN AddSteps(ud, doc, adoc, f, u, t)
    ELSE [processed |-> FALSE, ud |-> ud, save |-> NoSave(doc), reply |-> "denied"]

\* an edit that sets the values of every account of the list
SetValuesAll(accounts, i, attack, defense) ==
    [k \in 1..Len(accounts) |->
        [accounts[k] EXCEPT !.attack = attack, !.defense = defense]]

\* acc["attack"] = attack; acc["defense"] = defense, for the account at i
SetValues(accounts, i, attack, defense) ==
    [accounts EXCEPT ![i].attack = attack, ![i].defense = defense]

\* the edit-flow part of handle_text_messages; before is the reply already sent
EditSteps(ud, doc, f, u, t, before) ==
    LET text == Strip(t)
        idle == [ud |-> ud, save |-> NoSave(doc), reply |-> before]
    IN
    IF ud.editing_account = NoText \/ ud.edit_step = NoStep THEN idle
    ELSE IF ParseFails(text) THEN [idle EXCEPT !.reply = "invalid"]
    ELSE IF ud.edit_step = "attack" THEN
        [idle EXCEPT !.reply = "edit_ask_defense",
                     !.ud = [ud EXCEPT !.pending_attack = Some(ParseValue(text)),
                                       !.edit_step = "defense"]]
    ELSE IF ud.edit_step = "defense" THEN
        LET cleared == [ud EXCEPT !.pending_attack = None, !.editing_account = NoText,
                                  !.edit_step = NoStep]
            d == LoadData(doc, f)
            accounts == AccountsIn(d, u)
            i == FindAccount(accounts, ud.editing_account)
        IN  IF ud.pending_attack = None
            THEN [idle EXCEPT !.reply = "lost", !.ud = cleared]
            ELSE IF u \in DOMAIN d /\ i > 0
            THEN [idle EXCEPT !.reply = "updated", !.ud = cleared,
                     !.save = SaveDataWithRetry(doc,
                        [d EXCEPT ![u].accounts = SetValues(accounts, i,
                                     ud.pending_attack[1], ParseValue(text))], f)]
            ELSE [idle EXCEPT !.reply = "not_found", !.ud = cleared]
    ELSE idle

\* handle_text_messages: the broadcast prompt first, then the add flow, then
\* the edit flow.
HandleText(ud, doc, adoc0, f, u, t) ==
    LET adoc == LoadUserData(adoc0, f).doc
        A == HandleAddAccountSteps(ud, doc, adoc, f, u, t)
        E == EditSteps(ud, doc, f, u, t, A.reply)
    IN
    IF HandleBroadcast(ud, adoc, f, u)
    THEN Result([ud EXCEPT !.awaiting_broadcast = FALSE], adoc, NoSave(doc), "broadcast")
    ELSE IF A.processed THEN Result(A.ud, adoc, A.save, A.reply)
    ELSE Result(E.ud, adoc, E.save, E.reply)

TextMessage(u, t, f) ==
    \E R \in {HandleText(user_data[u], data, authDoc, f, u, t)} : Apply(u, R)

\* ------------------------------------------------------------------ /start

\* handle_private_start: update_user_info comes first, the authorization
\* check second.
HandlePrivateStart(ud, doc, adoc, f, u) ==
    LET updated == UpdateUserInfo(adoc, f, u)
        after == LoadUserData(updated, f).doc
    IN  Result(ud, after, NoSave(doc),
               IF IsUserAuthorized(updated, f, u) THEN "menu" ELSE "restricted")

\* /start in a private chat
Start(u, f) ==
    \E R \in {HandlePrivateStart(user_data[u], data, authDoc, f, u)} : Apply(u, R)

\* callback menu_back: the page cursors are dropped (no other key), then
\* handle_private_start draws the menu.
MenuBack(ud, doc, adoc, f, u) ==
    Restricted(ud, doc, adoc, f, u,
        HandlePrivateStart([ud EXCEPT !.accounts_page = None], doc,
                           LoadUserData(adoc, f).doc, f, u))

CallbackMenuBack(u, f) ==
    \E R \in {MenuBack(user_data[u], data, authDoc, f, u)} : Apply(u, R)

\* ---------------------------------------------------------------- the flows

\* A callback that only sets keys of the caller's session: ud is the session
\* afterwards.
SessionCallback(ud0, doc, adoc, f, u, ud, reply) ==
    Restricted(ud0, doc, adoc, f, u,
        Result(ud, LoadUserData(adoc, f).doc, NoSave(doc), reply))

\* a start of the add flow that leaves the add_temp of an earlier flow
AddAccountStartKeepsTemp(ud, doc, adoc, f, u) ==
    SessionCallback(ud, doc, adoc, f, u, [ud EXCEPT !.add_step = "username"], "ask_username")

\* callback add_account
AddAccountStart(ud, doc, adoc, f, u) ==
    SessionCallback(ud, doc, adoc, f, u,
        [ud EXCEPT !.add_step = "username", !.add_temp = NoTemp], "ask_username")

CallbackAddAccountStart(u, f) ==
    \E R \in {AddAccountStart(user_data[u], data, authDoc, f, u)} : Apply(u, R)

\* a confirmation that starts the add flow over
AddConfirmOverwriteResets(ud, doc, adoc, f, u, name) ==
    SessionCallback(ud, doc, adoc, f, u,
        [ud EXCEPT !.add_step = "attack", !.add_temp = NoTemp], "ask_attack")

\* callback add_confirm_overwrite:<username>
AddConfirmOverwrite(ud, doc, adoc, f, u, name) ==
    SessionCallback(ud, doc, adoc, f, u, [ud EXCEPT !.add_step = "attack"], "ask_attack")

CallbackAddConfirmOverwrite(u, name, f) ==
    \E R \in {AddConfirmOverwrite(user_data[u], data, authDoc, f, u, name)} : Apply(u, R)

\* callback add_cancel_overwrite
AddCancelOverwrite(ud, doc, adoc, f, u) ==
    SessionCallback(ud, doc, adoc, f, u,
        [ud EXCEPT !.add_step = NoStep, !.add_temp = NoTemp], "cancelled")

CallbackAddCancelOverwrite(u, f) ==
    \E R \in {AddCancelOverwrite(user_data[u], data, authDoc, f, u)} : Apply(u, R)

\* callback edit_account:<username>
EditAccountStart(ud, doc, adoc, f, u, name) ==
    SessionCallback(ud, doc, adoc, f, u,
        [ud EXCEPT !.editing_account = name, !.edit_step = "attack"], "edit_ask_attack")

CallbackEditAccountStart(u, name, f) ==
    \E R \in {EditAccountStart(user_data[u], data, authDoc, f, u, name)} : Apply(u, R)

\* callback admin_broadcast
AdminBroadcast(ud, doc, adoc, f, u) ==
    SessionCallback(ud, doc, adoc, f, u, [ud EXCEPT !.awaiting_broadcast = TRUE],
        "ask_broadcast")

CallbackAdminBroadcast(u, f) ==
    \E R \in {AdminBroadcast(user_data[u], data, authDoc, f, u)} : Apply(u, R)

\* callback admin_menu, the Cancel button of the broadcast prompt: the menu is
\* drawn for an administrator; no key of the session is read or written.
AdminMenu(ud, doc, adoc, f, u) ==
    SessionCallback(ud, doc, adoc, f, u, ud,
        IF IsAdmin(adoc, f, u) THEN "admin_menu" ELSE "no_permission")

CallbackAdminMenu(u, f) ==
    \E R \in {AdminMenu(user_data[u], data, authDoc, f, u)} : Apply(u, R)

\* ------------------------------------------------------- the paginated list

\* per_page = 6 of send_accounts_list_for_edit
PerPage == 6

Max(a, b) == IF a >= b THEN a ELSE b
Min(a, b) == IF a <= b THEN a ELSE b

\* int(context.user_data.get("accounts_page", 1))
PageOf(ud) == IF ud.accounts_page = None THEN 1 ELSE ud.accounts_page[1]

\* total_pages = max(1, (total + per_page - 1) // per_page)
TotalPages(total) == Max(1, (total + PerPage - 1) \div PerPage)

\* the body of send_accounts_list_for_edit: the cursor it stores and whether
\* it drew the list or "No tienes cuentas registradas"
AccountsList(ud, doc, adoc, f, u, page) ==
    LET accounts == GetUserAccounts(doc, f, u) IN
    Result([ud EXCEPT !.accounts_page = Some(page)], LoadUserData(adoc, f).doc,
           NoSave(doc), IF accounts = << >> THEN "no_accounts" ELSE "accounts_list")

\* a list that does not hold the cursor below the last page
SendAccountsListUnclamped(ud, doc, adoc, f, u) ==
    Restricted(ud, doc, adoc, f, u,
        AccountsList(ud, doc, adoc, f, u, Max(1, PageOf(ud))))

\* send_accounts_list_for_edit, under @restricted
SendAccountsListForEdit(ud, doc, adoc, f, u) ==
    Restricted(ud, doc, adoc, f, u,
        AccountsList(ud, doc, adoc, f, u,
            Max(1, Min(PageOf(ud), TotalPages(Len(GetUserAccounts(doc, f, u)))))))

\* callback accounts_next, accounts_prev: the cursor is moved, then the list
\* is drawn
AccountsPagination(ud, doc, adoc, f, u, button) ==
    LET moved == IF button = "accounts_next" THEN PageOf(ud) + 1
                 ELSE IF button = "accounts_prev" THEN Max(1, PageOf(ud) - 1)
                 ELSE PageOf(ud)
        ud1 == IF button \in {"accounts_next", "accounts_prev"}
               THEN [ud EXCEPT !.accounts_page = Some(moved)] ELSE ud
    IN  Restricted(ud, doc, adoc, f, u,
            SendAccountsListForEdit(ud1, doc, LoadUserData(adoc, f).doc, f, u))

CallbackAccountsPagination(u, button, f) ==
    \E R \in {AccountsPagination(user_data[u], data, authDoc, f, u, button)} : Apply(u, R)

\* ---------------------------------------------------------------- deletions

\* callback confirm_delete_account:<username>
ConfirmDeleteAccount(ud, doc, adoc, f, u, name) ==
    LET D == DeleteUserAccount(doc, f, u, name) IN
    Restricted(ud, doc, adoc, f, u,
        Result(ud, LoadUserData(adoc, f).doc, D.save,
               IF D.returned THEN "deleted" ELSE "delete_not_found"))

CallbackConfirmDeleteAccount(u, name, f) ==
    \E R \in {ConfirmDeleteAccount(user_data[u], data, authDoc, f, u, name)} : Apply(u, R)

\* callback admin_delete_account:<user_id>:<username>
AdminDeleteAccount(ud, doc, adoc, f, u, target, name) ==
    LET d == LoadData(doc, f)
        accounts == AccountsIn(d, target)
        rest == WithoutName(accounts, name)
        found == target \in DOMAIN d /\ Len(rest) < Len(accounts)
    IN  Restricted(ud, doc, adoc, f, u,
            Result(ud, LoadUserData(adoc, f).doc,
                   IF found
                   THEN SaveDataWithRetry(doc, [d EXCEPT ![target].accounts = rest], f)
                   ELSE NoSave(doc),
                   IF found THEN "admin_deleted" ELSE "admin_not_found"))

CallbackAdminDeleteAccount(u, target, name, f) ==
    \E R \in {AdminDeleteAccount(user_data[u], data, authDoc, f, u, target, name)} :
        Apply(u, R)

\* callback admin_delete_user:<user_id>: the member's entry is dropped from
\* the record document and the id from both lists of the authorization
\* document.
AdminDeleteUser(ud, doc, adoc, f, u, target) ==
    LET d == LoadData(doc, f)
        L == LoadUserData(adoc, f)
        found == target \in DOMAIN d
        revoked == [L.data EXCEPT !.authorized_ids = @ \ {target},
                                  !.admin_ids = @ \ {target}]
    IN  Restricted(ud, doc, adoc, f, u,
            Result(ud,
                   IF found /\ target \in L.data.authorized_ids
                   THEN SaveUserData(L.doc, revoked, f).doc
                   ELSE L.doc,
                   IF found THEN SaveDataWithRetry(doc, Remove(d, target), f)
                   ELSE NoSave(doc),
                   IF found THEN "user_deleted" ELSE "user_not_found"))

CallbackAdminDeleteUser(u, target, f) ==
    \E R \in {AdminDeleteUser(user_data[u], data, authDoc, f, u, target)} : Apply(u, R)

\* ------------------------------------------------------------ authorization

\* a handler of access requests that does not ask whether the caller is an
\* administrator
AdminRequestUnchecked(ud, doc, adoc, f, u, action, target) ==
    LET after == LoadUserData(adoc, f).doc IN
    Restricted(ud, doc, adoc, f, u,
        IF action \in {"accept", "accept_admin"}
        THEN Result(ud, AddAuthorizedUser(after, f, target, action = "accept_admin").doc,
                    NoSave(doc), "request_accepted")
        ELSE Result(ud, after, NoSave(doc), "request_denied"))

\* callback admin_request:<action>:<id>
AdminRequest(ud, doc, adoc, f, u, action, target) ==
    LET after == LoadUserData(adoc, f).doc IN
    Restricted(ud, doc, adoc, f, u,
        IF ~IsAdmin(adoc, f, u) THEN Result(ud, after, NoSave(doc), "no_permission")
        ELSE IF action \in {"accept", "accept_admin"}
        THEN Result(ud, AddAuthorizedUser(after, f, target, action = "accept_admin").doc,
                    NoSave(doc), "request_accepted")
        ELSE Result(ud, after, NoSave(doc), "request_denied"))

CallbackAdminRequest(u, action, target, f) ==
    \E R \in {AdminRequest(user_data[u], data, authDoc, f, u, action, target)} : Apply(u, R)

\* /adduser <id>
Adduser(ud, doc, adoc, f, u, target) ==
    LET after == LoadUserData(adoc, f).doc
        A == AddAuthorizedUser(after, f, target, FALSE)
    IN
    Restricted(ud, doc, adoc, f, u,
        IF ~IsAdmin(adoc, f, u) THEN Result(ud, after, NoSave(doc), "no_permission")
        ELSE IF IsUserAuthorized(adoc, f, target)
        THEN Result(ud, after, NoSave(doc), "already_authorized")
        ELSE Result(ud, A.doc, NoSave(doc), IF A.ok THEN "user_added" ELSE "add_failed"))

CmdAdduser(u, target, f) ==
    \E R \in {Adduser(user_data[u], data, authDoc, f, u, target)} : Apply(u, R)

\* ------------------------------------------------------------ specification

\* the usernames on the buttons the bot drew for u's accounts
ButtonNames(u) == {AccountsIn(data, u)[i].username : i \in 1..Len(AccountsIn(data, u))}

\* no flow is pending in u's session
Idle(u) == user_data[u] = EmptySession

\* the texts u types: names when asked for a username, numbers otherwise
TextsFor(u) == IF user_data[u].add_step = "username" THEN NameTexts ELSE NumberTexts

\* the faults that matter to a handler that only reads the authorization file,
\* to one that also writes it, to one that reads and writes the data file, and
\* to one that writes both files
AuthReadFaults == {"none", "auth_load"}
AuthFaults == {"none", "auth_load", "auth_save"}
DataFaults == {"none", "data_load", "data_conflict", "data_error"}
DeleteFaults == {"none", "auth_save", "data_load", "data_conflict"}

\* The updates of a deployment in which the users of typists send /start and
\* texts and press the flow buttons, one flow at a time, and every user
\* presses the administration buttons.
NextEnv(typists) ==
    \/ \E u \in typists, f \in AuthFaults : Start(u, f)
    \/ \E u \in typists, f \in AuthFaults : CallbackMenuBack(u, f)
    \/ \E u \in typists, f \in AuthReadFaults : Idle(u) /\ CallbackAddAccountStart(u, f)
    \/ \E u \in typists, f \in DataFaults : \E t \in TextsFor(u) : TextMessage(u, t, f)
    \/ \E u \in typists, f \in AuthReadFaults :
          /\ user_data[u].add_step = "confirm_overwrite"
          /\ CallbackAddConfirmOverwrite(u, user_data[u].add_temp.username, f)
    \/ \E u \in typists, f \in AuthReadFaults : CallbackAddCancelOverwrite(u, f)
    \/ \E u \in typists, f \in AuthReadFaults :
          \E name \in ButtonNames(u) : Idle(u) /\ CallbackEditAccountStart(u, name, f)
    \/ \E u \in typists, f \in AuthReadFaults : Idle(u) /\ CallbackAdminBroadcast(u, f)
    \/ \E u \in typists, f \in AuthReadFaults : CallbackAdminMenu(u, f)
    \/ \E u \in typists, f \in DataFaults :
          \E name \in ButtonNames(u) : CallbackConfirmDeleteAccount(u, name, f)
    \/ \E u \in Users, target \in Users, f \in DataFaults :
          \E name \in ButtonNames(target) : CallbackAdminDeleteAccount(u, target, name, f)
    \/ \E u \in Users, target \in Users, f \in DeleteFaults :
          CallbackAdminDeleteUser(u, target, f)
    \/ \E u \in Users, target \in Users \ {Owner}, f \in AuthFaults :
          \E action \in {"accept", "accept_admin", "deny"} :
             CallbackAdminRequest(u, action, target, f)
    \/ \E u \in Users, target \in Users \ {Owner}, f \in AuthFaults : CmdAdduser(u, target, f)

Next == NextEnv({Member})

Spec == Init /\ [][Next]_vars

NextOwner == NextEnv({Owner})

SpecOwner == Init /\ [][NextOwner]_vars

\* The owner alone, pressing the flow buttons whatever flow is pending, so
\* that the add flow, the edit flow and the broadcast prompt are pending
\* together.
MixedTexts == {TFoo, TNum}

NextMixed ==
    \/ CallbackMenuBack(Owner, "none")
    \/ CallbackAddAccountStart(Owner, "none")
    \/ \E t \in MixedTexts, f \in {"none", "data_conflict"} : TextMessage(Owner, t, f)
    \/ /\ user_data[Owner].add_step = "confirm_overwrite"
       /\ CallbackAddConfirmOverwrite(Owner, user_data[Owner].add_temp.username, "none")
    \/ CallbackAddCancelOverwrite(Owner, "none")
    \/ \E name \in ButtonNames(Owner) : CallbackEditAccountStart(Owner, name, "none")
    \/ CallbackAdminBroadcast(Owner, "none")
    \/ CallbackAdminMenu(Owner, "none")

SpecMixed == Init /\ [][NextMixed]_vars

\* The owner alone in the add flow, pressing the buttons of old messages as
\* well (a confirmation button stays on screen after its flow has moved on)
\* and sending a text of blanks when asked for a name.
TBlank == <<" ">>
StaleTexts == {TFoo, TZero, TNum, TBlank}

NextStale ==
    \/ CallbackMenuBack(Owner, "none")
    \/ CallbackAddAccountStart(Owner, "none")
    \/ \E t \in StaleTexts, f \in {"none", "data_conflict"} : TextMessage(Owner, t, f)
    \/ \E name \in {TFoo, TNum} : CallbackAddConfirmOverwrite(Owner, name, "none")
    \/ CallbackAddCancelOverwrite(Owner, "none")

SpecStale == Init /\ [][NextStale]_vars

\* ------------------------------------------------------------ two writers

\* The accounts the two writers register.
RaceAccounts == {Account(TFoo, 0, 0), Account(Tfoo, 1000, 1000)}

\* get_user_info inside add_user_account reads the authorization file (and
\* creates it when missing) when the member's telegram_name is empty.
AddUserAccountAuth(doc, adoc, f, u) ==
    LET d == LoadData(doc, f) IN
    IF u \in DOMAIN d /\ d[u].telegram_name # "" THEN adoc ELSE LoadUserData(adoc, f).doc

\* add_user_account(u, account) run from its first line to its return by one
\* writer while the other is not inside it.
AddAccount(u, account, f) ==
    /\ data' = AddUserAccount(data, authDoc, f, u, account).doc
    /\ authDoc' = AddUserAccountAuth(data, authDoc, f, u)
    /\ UNCHANGED <<user_data, race>>

\* The second writer inside add_user_account: load_data and the new mapping ...
RaceLoad(u, account) ==
    /\ race.phase = "idle"
    /\ race' = [phase |-> "loaded", uid |-> u, base |-> LoadData(data, "none"),
                new |-> AddCompute(LoadData(data, "none"), u, account,
                                   HasFirstName(authDoc, "none", u)),
                replaced |-> EmptyDoc, ok |-> FALSE]
    /\ authDoc' = AddUserAccountAuth(data, authDoc, "none", u)
    /\ UNCHANGED <<data, user_data>>

\* ... then save_data_with_retry(data) ...
RaceSave(f) ==
    /\ race.phase = "loaded"
    /\ \E S \in {SaveDataWithRetry(data, race.new, f)} :
          /\ data' = S.doc
          /\ race' = [race EXCEPT !.phase = "saved", !.replaced = data, !.ok = S.ok]
    /\ UNCHANGED <<authDoc, user_data>>

\* ... and the return.
RaceReturn ==
    /\ race.phase = "saved"
    /\ race' = RaceIdle
    /\ UNCHANGED <<data, authDoc, user_data>>

NextRace ==
    \/ \E u \in Users, account \in RaceAccounts, f \in {"none", "data_conflict"} :
          AddAccount(u, account, f)
    \/ \E u \in Users, account \in RaceAccounts : RaceLoad(u, account)
    \/ \E f \in {"none", "data_conflict"} : RaceSave(f)
    \/ RaceReturn

SpecRace == Init /\ [][NextRace]_vars

\* ------------------------------------------------------------ the long list

\* The owner with up to one account more than a page holds, named a, aa, aaa
\* and so on, registered in that order and deleted in any order, and pressing
\* the buttons of the paginated list and of the menu.
PageNames == [k \in 1..(PerPage + 1) |-> [i \in 1..k |-> "a"]]

\* every account of u has a name shorter than that of the k-th account
Before(u, k) ==
    \A i \in 1..Len(AccountsIn(data, u)) : Len(AccountsIn(data, u)[i].username) < k

NextPages ==
    \/ \E k \in 1..Len(PageNames) :
          Before(Owner, k) /\ AddAccount(Owner, Account(PageNames[k], 1000, 1000), "none")
    \/ \E name \in ButtonNames(Owner) : CallbackConfirmDeleteAccount(Owner, name, "none")
    \/ \E button \in {"accounts_next", "accounts_prev"}, f \in {"none", "data_load"} :
          CallbackAccountsPagination(Owner, button, f)
    \/ CallbackMenuBack(Owner, "none")

SpecPages == Init /\ [][NextPages]_vars

\* ------------------------------------------------------------------ claims

\* Every update a user can send, with every input and every fault.
Acts(u) ==
    \E f \in Faults :
       \/ Start(u, f)
       \/ CallbackMenuBack(u, f)
       \/ CallbackAddAccountStart(u, f)
       \/ CallbackAddCancelOverwrite(u, f)
       \/ CallbackAdminBroadcast(u, f)
       \/ CallbackAdminMenu(u, f)
       \/ \E t \in Texts : TextMessage(u, t, f)
       \/ \E name \in NameTexts :
             \/ CallbackAddConfirmOverwrite(u, name, f)
             \/ CallbackEditAccountStart(u, name, f)
             \/ CallbackConfirmDeleteAccount(u, name, f)
             \/ \E target \in Users : CallbackAdminDeleteAccount(u, target, name, f)
       \/ \E target \in Users :
             \/ CallbackAdminDeleteUser(u, target, f)
             \/ CmdAdduser(u, target, f)
             \/ \E action \in {"accept", "accept_admin", "deny"} :
                   CallbackAdminRequest(u, action, target, f)

\* the two sets as every check sees them
AuthorizedIds(doc) == LoadUserData(doc, "none").data.authorized_ids
AdminIds(doc) == LoadUserData(doc, "none").data.admin_ids

\* the replies that tell the user a mutation was made
SuccessReplies == {"registered", "updated", "deleted", "admin_deleted", "user_deleted"}

\* C1: with a backend whose write always answers 409, save_data_with_retry
\* makes exactly three write attempts, returns failure and leaves the remote
\* document as it was.
C1_RetryThenFail ==
    \A u \in Users :
        LET S == SaveDataWithRetry(data, AddCompute(data, u, Account(TFoo, 0, 0), FALSE),
                                   "data_conflict")
        IN  S.attempts = Retries /\ ~S.ok /\ S.doc = data

\* C2: a write of the record document carries the version token of the read
\* its content was computed from, so a save that succeeds overwrites no other
\* writer's change: every other member's record that was in the document the
\* write replaced is in the document written.
C2_NoOverwrittenChange ==
    (race.phase = "saved" /\ race.ok) =>
        \A m \in DOMAIN race.replaced \ {race.uid} :
            m \in DOMAIN race.new /\ race.new[m] = race.replaced[m]

\* no two accounts of a list have usernames that are equal ignoring case
UniqueNames(accounts) ==
    \A i, j \in 1..Len(accounts) :
        i # j => Lower(accounts[i].username) # Lower(accounts[j].username)

\* The add-flow commit of R on a username that is taken: the entry is
\* replaced in place by the new values and nothing is appended.
ReplacesOnCollision(u, R) ==
    LET old == AccountsIn(data, u)
        name == user_data[u].add_temp.username
        i == CHOOSE k \in 1..Len(old) : Lower(old[k].username) = Lower(name)
        new == AccountsIn(R.save.doc, u)
    IN  /\ Len(new) = Len(old)
        /\ new[i].username = name
        /\ new[i].attack = user_data[u].add_temp.attack[1]
        /\ \A k \in 1..Len(old) : k # i => new[k] = old[k]

\* the text t commits, in the add flow of u, an account whose username is taken
CollidingCommit(u, t, R) ==
    /\ user_data[u].add_step = "defense"
    /\ R.reply = "registered" /\ R.save.ok
    /\ \E k \in 1..Len(AccountsIn(data, u)) :
          Lower(AccountsIn(data, u)[k].username) = Lower(user_data[u].add_temp.username)

\* C3: no member record ever holds two accounts whose usernames are equal
\* ignoring case, and an add-flow commit whose username collides ignoring case
\* replaces the existing entry with the new values instead of appending.
C3_UniqueUsernames ==
    /\ \A u \in DOMAIN data : UniqueNames(data[u].accounts)
    /\ \A u \in Users, t \in Texts :
          LET R == HandleText(user_data[u], data, authDoc, "none", u, t)
          IN  CollidingCommit(u, t, R) =>
                 /\ ReplacesOnCollision(u, R)
                 /\ AccountsIn(R.save.doc, u)[FindAccount(AccountsIn(data, u),
                        user_data[u].add_temp.username)].defense = ParseValue(t)

\* C3 witness: the member holds "Foo" and is about to commit "foo" with other
\* values, and the commit leaves one account, named "foo", with those values.
C3_Witness ==
    \E t \in Texts :
        LET R == HandleText(user_data[Member], data, authDoc, "none", Member, t)
            old == AccountsIn(data, Member)
        IN  /\ CollidingCommit(Member, t, R)
            /\ Len(old) = 1 /\ old[1].username = TFoo /\ old[1].defense = 0
            /\ AccountsIn(R.save.doc, Member) = <<Account(Tfoo, 1000, 1000)>>

\* C4: the member-delete action on the owner always fails: it never removes
\* the owner's member record and never writes an authorization document
\* without the owner.
C4_OwnerNeverDeleted ==
    [][\A u \in Users, f \in Faults :
          CallbackAdminDeleteUser(u, Owner, f) =>
             /\ Owner \in DOMAIN data => Owner \in DOMAIN data'
             /\ authDoc' # authDoc =>
                   Owner \in authDoc'.authorized_ids \cap authDoc'.admin_ids]_vars

\* C5: whatever the persisted authorization document holds, and whether or
\* not reading it fails, is_user_authorized(ADMIN_USER_ID) and
\* is_admin(ADMIN_USER_ID) are true.
C5_OwnerAlwaysAuthorized ==
    \A f \in Faults : IsUserAuthorized(authDoc, f, Owner) /\ IsAdmin(authDoc, f, Owner)

\* C5 witness: the persisted document lists neither the owner as authorized nor
\* as administrator, and both checks answer true.
C5_Witness ==
    /\ authDoc.exists
    /\ Owner \notin authDoc.authorized_ids \cup authDoc.admin_ids
    /\ IsUserAuthorized(authDoc, "none", Owner) /\ IsAdmin(authDoc, "none", Owner)

\* C6: the authorized-id set and the admin-id set change only by an action of
\* a caller who is an administrator at that moment.
C6_SetsChangeOnlyByAdmin ==
    [][\A u \in Users :
          (Acts(u) /\ u \notin AdminIds(authDoc)) =>
             /\ AuthorizedIds(authDoc') = AuthorizedIds(authDoc)
             /\ AdminIds(authDoc') = AdminIds(authDoc)]_vars

\* C7: an account leaves a member record only by an action of that member or
\* of an administrator.
C7_RemovalOnlyByOwnerOrAdmin ==
    [][\A u \in Users :
          (Acts(u) /\ u \notin AdminIds(authDoc)) =>
             \A m \in DOMAIN data \ {u} :
                /\ m \in DOMAIN data'
                /\ \A i \in 1..Len(data[m].accounts) :
                      \E j \in 1..Len(data'[m].accounts) :
                         data'[m].accounts[j].username = data[m].accounts[i].username]_vars

\* C8: an update from a user who is not authorized at that moment changes
\* neither the session, nor the record document, nor the authorization
\* document.
C8_UnauthorizedChangesNothing ==
    [][\A u \in Users :
          (Acts(u) /\ u \notin AuthorizedIds(authDoc)) =>
             /\ user_data' = user_data
             /\ data' = data
             /\ LoadUserData(authDoc', "none").data = LoadUserData(authDoc, "none").data]_vars

\* the handler of R made a write of the record document that failed
FailedWrite(R) == R.save.attempts > 0 /\ ~R.save.ok

\* C9: when the store write of a commit fails (add-flow commit, edit-flow
\* commit, account or member deletion) no success message is sent.
C9_FailedWriteIsReported ==
    \A u \in Users, f \in Faults :
       /\ \A t \in Texts :
             LET R == HandleText(user_data[u], data, authDoc, f, u, t)
             IN  FailedWrite(R) => R.reply \notin SuccessReplies
       /\ \A name \in NameTexts :
             LET R == ConfirmDeleteAccount(user_data[u], data, authDoc, f, u, name)
             IN  FailedWrite(R) => R.reply \notin SuccessReplies
       /\ \A target \in Users, name \in NameTexts :
             LET R == AdminDeleteAccount(user_data[u], data, authDoc, f, u, target, name)
             IN  FailedWrite(R) => R.reply \notin SuccessReplies
       /\ \A target \in Users :
             LET R == AdminDeleteUser(user_data[u], data, authDoc, f, u, target)
             IN  FailedWrite(R) => R.reply \notin SuccessReplies

\* the keys of both flows are gone from the session
FlowsCleared(ud) ==
    /\ ud.add_step = NoStep /\ ud.add_temp = NoTemp
    /\ ud.editing_account = NoText /\ ud.edit_step = NoStep /\ ud.pending_attack = None

\* C10: from every non-terminal state of the add flow and of the edit flow the
\* cancel action (menu_back, add_cancel_overwrite) clears the step tag and the
\* pending fields.
C10_CancelClearsFlow ==
    [][\A u \in AuthorizedIds(authDoc) :
          (CallbackMenuBack(u, "none") \/ CallbackAddCancelOverwrite(u, "none")) =>
             FlowsCleared(user_data'[u])]_vars

\* the text t parses, commas removed, to an integer that is not positive
NotPositive(t) == ~ParseFails(Strip(t)) /\ ParseValue(Strip(t)) <= 0

\* every account of the record document has positive values
PositiveAccounts(d) ==
    \A m \in DOMAIN d : \A i \in 1..Len(d[m].accounts) :
        d[m].accounts[i].attack > 0 /\ d[m].accounts[i].defense > 0

\* C11: in the add flow's awaiting-username state an input whose trimmed
\* length is less than 3 is rejected: the flow stays in awaiting-username and
\* no pending username is stored.
C11_ShortUsernameRejected ==
    \A u \in AuthorizedIds(authDoc), t \in Texts :
        LET R == HandleText(user_data[u], data, authDoc, "none", u, t)
        IN  (user_data[u].add_step = "username" /\ Len(Strip(t)) < 3) =>
               /\ R.ud.add_step = "username"
               /\ R.ud.add_temp.username = NoText

\* C12: in the awaiting-attack and awaiting-defense states of the add and of
\* the edit flow an input that parses, commas removed, to zero or to a
\* negative integer is rejected and the flow stays in its state; so every
\* stored account has attack > 0 and defense > 0.
C12_OnlyPositiveValues ==
    /\ PositiveAccounts(data)
    /\ \A u \in AuthorizedIds(authDoc), t \in Texts :
          LET ud == user_data[u]
              R == HandleText(ud, data, authDoc, "none", u, t)
          IN  (/\ NotPositive(t)
               /\ \/ ud.add_step \in {"attack", "defense"}
                  \/ ud.editing_account # NoText /\ ud.edit_step \in {"attack", "defense"})
              => R.ud = ud /\ R.save.doc = data

\* the text t is no number: it holds a character that is neither a digit, nor
\* a sign, nor a comma, nor white space
NonNumeric(t) ==
    \E i \in 1..Len(t) : ~IsDigit(t[i]) /\ t[i] \notin {",", "+", "-"} /\ ~IsSpace(t[i])

\* the handler of R made no write of the record document
NoWrite(R) == R.save.attempts = 0 /\ R.save.doc = data

\* C13: a text that is no number, sent while a flow awaits the attack value,
\* leaves that flow awaiting the attack value and its pending fields as they
\* were (the add flow's pending username, the edit flow's selected username),
\* and writes nothing to the record document.
C13_InvalidAttackKeepsState ==
    \A u \in Users, t \in Texts, f \in Faults :
        LET ud == user_data[u]
            R == HandleText(ud, data, authDoc, f, u, t)
        IN  NonNumeric(t) =>
               /\ ud.add_step = "attack" =>
                     /\ R.ud.add_step = "attack" /\ R.ud.add_temp = ud.add_temp
                     /\ NoWrite(R)
               /\ (ud.editing_account # NoText /\ ud.edit_step = "attack") =>
                     /\ R.ud.edit_step = "attack"
                     /\ R.ud.editing_account = ud.editing_account
                     /\ R.ud.pending_attack = ud.pending_attack
                     /\ NoWrite(R)

\* C13 witness: the add flow awaits the attack value with "Foo" pending while
\* the edit flow awaits the attack value too, and the text "Foo" is answered
\* with "Valor inválido".
C13_Witness ==
    LET ud == user_data[Owner] IN
    /\ ud.add_step = "attack" /\ ud.add_temp.username = TFoo
    /\ ud.editing_account # NoText /\ ud.edit_step = "attack"
    /\ HandleText(ud, data, authDoc, "none", Owner, TFoo).reply = "invalid"

\* the accounts handed to add_user_account: every name, with values that no
\* stored account has
UpsertInputs == {Account(n, 5, 6) : n \in NameTexts}

\* the positions of the accounts named like username, ignoring case
Matches(accounts, username) ==
    {k \in 1..Len(accounts) : Lower(accounts[k].username) = Lower(username)}

\* new is old with account in the place of the first account of its name, or
\* at the end when there is none
Upserted(old, new, account) ==
    LET M == Matches(old, account.username) IN
    IF M = {} THEN new = Append(old, account)
    ELSE /\ Len(new) = Len(old)
         /\ \A k \in 1..Len(old) :
               new[k] = IF k \in M /\ \A j \in M : k <= j THEN account ELSE old[k]

AddOnce(doc, adoc, f, u, account) ==
    [doc |-> AddUserAccount(doc, adoc, f, u, account).doc,
     adoc |-> AddUserAccountAuth(doc, adoc, f, u),
     ok |-> AddUserAccount(doc, adoc, f, u, account).ok]

C16_ReturnsCreatedOrUpdated ==
    \A u \in Users, a \in UpsertInputs :
        LET old == AccountsIn(data, u)
            once == AddOnce(data, authDoc, "none", u, a)
            twice == AddOnce(once.doc, once.adoc, "none", u, a)
        IN  /\ Matches(old, a.username) = {} => twice.ok # once.ok
            /\ \A b \in UpsertInputs :
                  (Matches(old, a.username) = {} /\ Matches(old, b.username) # {}) =>
                     AddOnce(data, authDoc, "none", u, b).ok # once.ok

\* C17: delete_user_account(member, X), when the member is absent or has no
\* account named X ignoring case, returns false and issues no write: the
\* record document is unchanged.
C17_DeleteAbsentIsNoOp ==
    \A u \in Users, name \in NameTexts, f \in Faults :
        LET D == DeleteUserAccount(data, f, u, name)
        IN  Matches(AccountsIn(data, u), name) = {} =>
               ~D.returned /\ D.save.attempts = 0 /\ D.save.doc = data

\* C17 witness: the member holds an account and none named "0", the owner has
\* no record, and delete_user_account returns false for both.
C17_Witness ==
    /\ Len(AccountsIn(data, Member)) = 1
    /\ Matches(AccountsIn(data, Member), TZero) = {}
    /\ Owner \notin DOMAIN data
    /\ ~DeleteUserAccount(data, "none", Member, TZero).returned
    /\ ~DeleteUserAccount(data, "none", Owner, TZero).returned

\* C18: whenever delete_user_account(member, X) returns true, the stored
\* account sequence of the member is one element shorter than before the call
\* and holds no account named X ignoring case.
C18_DeletedWhenTrue ==
    \A u \in Users, name \in NameTexts, f \in Faults :
        LET D == DeleteUserAccount(data, f, u, name)
        IN  D.returned =>
               /\ Len(AccountsIn(D.save.doc, u)) = Len(AccountsIn(data, u)) - 1
               /\ Matches(AccountsIn(D.save.doc, u), name) = {}

\* C19: the member-delete action on an authorized identifier that is not the
\* owner's, whether or not it has a member record, leaves the identifier
\* without a member record and in neither the authorized set nor the admin
\* set.
C19_DeleteMemberRevokes ==
    \A u \in AdminIds(authDoc), target \in AuthorizedIds(authDoc) \ {Owner} :
        LET R == AdminDeleteUser(user_data[u], data, authDoc, "none", u, target)
        IN  /\ target \notin DOMAIN R.save.doc
            /\ target \notin AuthorizedIds(R.adoc) \cup AdminIds(R.adoc)

\* the answers a GET can have, given whether the file exists
GetOutcomesOf(exists) ==
    IF exists THEN GetOutcomes \ {"missing"} ELSE GetOutcomes \ {"ok", "ok_not_json"}

\* C20: storage and parse failures never leave the store functions as
\* exceptions.  For every answer of the backend load_data returns the empty
\* mapping when the document does not exist or the fetch or the parse fails,
\* save_data and save_user_data return false when a request fails, and
\* load_user_data returns the owner-only fallback; none of them raises.
C20_NoExceptionEscapes ==
    \A p \in PutOutcomes :
       /\ \A g \in GetOutcomes :
             LET L == TryLoadData(data, g)
                 S == TrySaveData(data, EmptyDoc, g, p)
             IN  /\ L.raised = "none" /\ (g # "ok" => L.value = EmptyDoc)
                 /\ S.raised = "none" /\ S.ok \in BOOLEAN
                 /\ (g \notin {"ok", "missing", "ok_not_json"} \/ p # "ok") => ~S.ok
       /\ \A g \in GetOutcomesOf(authDoc.exists) :
             LET L == TryLoadUserData(authDoc, g, p)
                 S == TrySaveUserData(authDoc, FallbackData, g, p)
             IN  /\ L.raised = "none"
                 /\ (g \notin {"ok", "missing"} \/ (g = "missing" /\ p # "ok")) =>
                       L.data = FallbackData
                 /\ S.raised = "none" /\ S.ok \in BOOLEAN
                 /\ (g \notin {"ok", "missing", "ok_not_json"} \/ p # "ok") => ~S.ok

\* C20 witness: both documents hold the other member, and with no answer to
\* the GET load_data returns the empty mapping and load_user_data the
\* owner-only fallback.
C20_Witness ==
    /\ Member \in DOMAIN data
    /\ authDoc.exists /\ Member \in authDoc.authorized_ids
    /\ TryLoadData(data, "network_error") = [raised |-> "none", value |-> EmptyDoc]
    /\ TryLoadUserData(authDoc, "network_error", "ok").data = FallbackData
    /\ ~TrySaveData(data, EmptyDoc, "ok", "network_error").ok

\* a username sent with white space around it, and the texts sent as usernames
Padded == <<" ", "f", "o", "o", " ">>
UsernameTexts == NameTexts \cup {Padded}

\* the text without the white space around it, written out
Trimmed(t) == IF t = Padded THEN Tfoo ELSE t

\* the add flow of u takes the text under the fault f: u passes @restricted
\* and the broadcast prompt does not consume the message
AddFlowTakes(u, f) ==
    /\ IsUserAuthorized(authDoc, f, u)
    /\ ~HandleBroadcast(user_data[u], authDoc, f, u)

AtConfirmOverwrite(u) ==
    /\ user_data[u].add_step = "confirm_overwrite"
    /\ ~user_data[u].awaiting_broadcast
    /\ u \in AuthorizedIds(authDoc)

AddCommitted(ud, R) == ud.add_step = "defense" /\ R.reply = "registered" /\ R.save.ok
EditCommitted(ud, R) == ud.edit_step = "defense" /\ R.reply = "updated" /\ R.save.ok

\* no text sent by u in the session ud starts a write of the record document
\* doc
NoTextWrites(ud, doc, adoc, u) ==
    \A t \in Texts, f \in Faults : HandleText(ud, doc, adoc, f, u, t).save.attempts = 0

EditFlowTakes(u) ==
    /\ user_data[u].add_step \in {NoStep, "confirm_overwrite"}
    /\ ~user_data[u].awaiting_broadcast

\* new is old with the attack and the defense of the first account named like
\* name set, and nothing else changed
ValuesSet(old, new, name, attack, defense) ==
    LET M == Matches(old, name) IN
    /\ Len(new) = Len(old)
    /\ \A k \in 1..Len(old) :
          new[k] = IF k \in M /\ \A j \in M : k <= j
                   THEN Account(old[k].username, attack, defense) ELSE old[k]

\* C24: the edit flow goes awaiting-attack, awaiting-defense, commit, for the
\* username selected when it started; its commit changes only the attack and
\* the defense of the caller's own account of that username ignoring case and
\* adds, removes or reorders no account; when that account no longer exists at
\* the commit, nothing is written.
C24_EditChangesOnlyValues ==
    \A u \in Users, f \in Faults :
        LET ud == user_data[u]
            name == ud.editing_account
            old == AccountsIn(data, u)
            A == HandleText(ud, data, authDoc, "none", u, TNum)
            D == HandleText(A.ud, data, A.adoc, f, u, TZero)
        IN  (name # NoText /\ ud.edit_step = "attack" /\ EditFlowTakes(u)) =>
               /\ A.ud.edit_step = "defense" /\ A.ud.editing_account = name
               /\ A.ud.pending_attack = Some(1000) /\ NoWrite(A)
               /\ D.ud.edit_step = NoStep /\ D.ud.editing_account = NoText
               /\ DOMAIN D.save.doc = DOMAIN data
               /\ \A m \in DOMAIN data \ {u} : D.save.doc[m] = data[m]
               /\ IF D.save.ok
                  THEN /\ Matches(old, name) # {}
                       /\ ValuesSet(old, AccountsIn(D.save.doc, u), name, 1000, 0)
                  ELSE D.save.doc = data
               /\ Matches(old, name) = {} => NoWrite(D)

\* C24 witness: the member holds "0" and "Foo" and edits "Foo"; "1,000" and
\* "0" leave "0" as it was, first, and "Foo" with the new values, second.
C24_Witness ==
    LET ud == user_data[Member]
        old == AccountsIn(data, Member)
        A == HandleText(ud, data, authDoc, "none", Member, TNum)
        D == HandleText(A.ud, data, A.adoc, "none", Member, TZero)
    IN  /\ ud.editing_account = TFoo /\ ud.edit_step = "attack"
        /\ Len(old) = 2 /\ old[2] = Account(TFoo, 0, 0)
        /\ D.save.ok
        /\ AccountsIn(D.save.doc, Member) = <<old[1], Account(TFoo, 1000, 0)>>

\* the inputs of the scenario
TGuerrero == <<"G", "u", "e", "r", "r", "e", "r", "o", "1", "2", "3">>
T15000 == <<"1", "5", "0", "0", "0">>
T12000 == <<"1", "2", "0", "0", "0">>

\* the store is empty and u is an authorized member, no administrator, with
\* no flow pending
ScenarioStart(u) ==
    /\ data = EmptyDoc
    /\ u \in AuthorizedIds(authDoc) \ AdminIds(authDoc)
    /\ Idle(u)

\* C25: from an empty store an authorized member who is no administrator and
\* runs the add flow with "Guerrero123", "15000", "12000" ends with exactly
\* one stored account {Guerrero123, 15000, 12000} under the member's key, and
\* the reply reports a total of 1 account, 15000 attack and 12000 defense.
C25_EndToEndAdd ==
    \A u \in Users :
        LET S == AddAccountStart(user_data[u], data, authDoc, "none", u)
            N == HandleText(S.ud, data, S.adoc, "none", u, TGuerrero)
            A == HandleText(N.ud, data, N.adoc, "none", u, T15000)
            D == HandleText(A.ud, data, A.adoc, "none", u, T12000)
            stored == Account(TGuerrero, 15000, 12000)
        IN  ScenarioStart(u) =>
               /\ D.reply = "registered" /\ D.save.ok
               /\ DOMAIN D.save.doc = {u}
               /\ D.save.doc[u].accounts = <<stored>>
               /\ RegisteredReply(stored) = [accounts |-> 1, attack |-> 15000, defense |-> 12000]

\* C26: in every authorization document the bot's own operations produce
\* (the initial creation, add_authorized_user with or without make_admin, the
\* member deletion) the admin set is a subset of the authorized set, in the
\* file and as every check reads it.
C26_AdminsAreAuthorized ==
    /\ authDoc.admin_ids \subseteq authDoc.authorized_ids
    /\ \A f \in Faults :
          LoadUserData(authDoc, f).data.admin_ids \subseteq
             LoadUserData(authDoc, f).data.authorized_ids

\* C26 witness: the other user was made an administrator and is in both sets
\* of the file.
C26_Witness ==
    /\ authDoc.exists
    /\ Member \in authDoc.admin_ids /\ Member \in authDoc.authorized_ids

\* the member deletion R committed the revocation of target
Revoked(target, R) ==
    /\ target \in authDoc.authorized_ids
    /\ R.adoc.exists /\ target \notin R.adoc.authorized_ids

\* C27: an authorization check reflects the latest committed authorization
\* set.  Once add_authorized_user(uid) has returned true, the next
\* is_user_authorized(uid), and is_admin(uid) when it was made an
\* administrator, that reads the document answers true and the user's next
\* callback is let through; once a member deletion has committed for an
\* identifier that is not the owner's, both answer false and the callback is
\* denied.
C27_ChecksReadLatest ==
    /\ \A target \in Users, make_admin \in BOOLEAN, f \in Faults :
          LET A == AddAuthorizedUser(authDoc, f, target, make_admin)
          IN  A.ok =>
                 /\ IsUserAuthorized(A.doc, "none", target)
                 /\ make_admin => IsAdmin(A.doc, "none", target)
                 /\ AddAccountStart(EmptySession, data, A.doc, "none", target).reply
                       = "ask_username"
    /\ \A u \in Users, target \in Users \ {Owner}, f \in Faults :
          LET R == AdminDeleteUser(user_data[u], data, authDoc, f, u, target)
          IN  Revoked(target, R) =>
                 /\ ~IsUserAuthorized(R.adoc, "none", target)
                 /\ ~IsAdmin(R.adoc, "none", target)
                 /\ AddAccountStart(EmptySession, data, R.adoc, "none", target).reply
                       = "denied"

\* C27 witness: the other user is authorized and has a record; the owner's
\* member deletion revokes them and the check answers false, and
\* add_authorized_user on that document returns true and the check answers
\* true again.
C27_Witness ==
    LET R == AdminDeleteUser(user_data[Owner], data, authDoc, "none", Owner, Member)
        A == AddAuthorizedUser(R.adoc, "none", Member, FALSE)
    IN  /\ IsUserAuthorized(authDoc, "none", Member)
        /\ Revoked(Member, R)
        /\ ~IsUserAuthorized(R.adoc, "none", Member)
        /\ A.ok /\ IsUserAuthorized(A.doc, "none", Member)

\* the step is the add-flow commit of m
AddCommitStep(m) ==
    /\ user_data[m].add_step = "defense"
    /\ \E t \in Texts, f \in Faults : TextMessage(m, t, f)

\* the step is a member deletion of m
MemberDeleteStep(m) ==
    \E u \in Users, f \in Faults : CallbackAdminDeleteUser(u, m, f)

\* deleting the last account of u, by u or through the administration menu,
\* leaves u's record with an empty account sequence
LastAccountLeavesRecord(u) ==
    \A name \in NameTexts, a \in Users :
        LET D == ConfirmDeleteAccount(user_data[u], data, authDoc, "none", u, name)
            A == AdminDeleteAccount(user_data[a], data, authDoc, "none", a, u, name)
        IN  (Len(AccountsIn(data, u)) = 1 /\ Matches(AccountsIn(data, u), name) # {}) =>
               /\ IsUserAuthorized(authDoc, "none", u) =>
                     D.save.ok /\ u \in DOMAIN D.save.doc /\ D.save.doc[u].accounts = << >>
               /\ IsUserAuthorized(authDoc, "none", a) =>
                     A.save.ok /\ u \in DOMAIN A.save.doc /\ A.save.doc[u].accounts = << >>

PendingFlows(ud) ==
    (IF ud.add_step # NoStep THEN {"add"} ELSE {})
    \cup (IF ud.edit_step # NoStep THEN {"edit"} ELSE {})
    \cup (IF ud.awaiting_broadcast THEN {"broadcast"} ELSE {})

\* C29: for each user at most one multi-step input flow is pending at any
\* time: at most one of the add flow's step tag, the edit flow's step tag and
\* awaiting_broadcast is set.
C29_OneFlowAtATime ==
    \A u \in Users : Cardinality(PendingFlows(user_data[u])) <= 1

\* C30: the confirm-overwrite proceed action changes the add flow only when
\* the user's flow is in confirm-overwrite for the username the button
\* carries; pressed when the user is idle, in another step, or pending another
\* username, it neither starts nor advances an add flow.
C30_StaleConfirmIsIgnored ==
    \A u \in AuthorizedIds(authDoc), name \in NameTexts :
        LET ud == user_data[u]
            R == AddConfirmOverwrite(ud, data, authDoc, "none", u, name)
        IN  (ud.add_step # "confirm_overwrite" \/ ud.add_temp.username # name) =>
               R.ud.add_step = ud.add_step /\ R.ud.add_temp = ud.add_temp

\* the broadcast prompt is open in u's session and u is an administrator
PromptOpen(u) == user_data[u].awaiting_broadcast /\ u \in AdminIds(authDoc)

\* C31: a broadcast is sent only for the text an administrator sends after
\* opening the broadcast prompt and without cancelling it: once the
\* administrator has pressed the prompt's Cancel button (callback admin_menu)
\* or gone back to the main menu, awaiting_broadcast is cleared and a later
\* text of that administrator is not broadcast.
C31_CancelStopsBroadcast ==
    \A u \in Users, t \in Texts :
        LET ud == user_data[u]
            M == AdminMenu(ud, data, authDoc, "none", u)
            B == MenuBack(ud, data, authDoc, "none", u)
        IN  /\ HandleText(ud, data, authDoc, "none", u, t).reply = "broadcast"
                  => PromptOpen(u)
            /\ PromptOpen(u) =>
                  /\ ~M.ud.awaiting_broadcast
                  /\ ~B.ud.awaiting_broadcast
                  /\ HandleText(M.ud, data, M.adoc, "none", u, t).reply # "broadcast"
                  /\ HandleText(B.ud, data, B.adoc, "none", u, t).reply # "broadcast"

\* C32: after add_authorized_user(uid, username, first_name) has returned
\* true, the authorization document holds uid in authorized_ids and the
\* user_info entry of uid: the final save does not overwrite what the nested
\* update_user_info wrote.
C32_AddKeepsUserInfo ==
    \A uid \in Users, make_admin \in BOOLEAN, f \in Faults :
        LET A == AddAuthorizedUser(authDoc, f, uid, make_admin)
        IN  A.ok => /\ A.doc.exists
                    /\ uid \in A.doc.authorized_ids
                    /\ uid \in A.doc.user_info

\* every account stored has a username, an attack and a defense
CompleteAccounts(d) ==
    \A u \in DOMAIN d : \A i \in 1..Len(d[u].accounts) :
        /\ DOMAIN d[u].accounts[i] = {"username", "attack", "defense"}
        /\ d[u].accounts[i].username # NoText
        /\ d[u].accounts[i].attack \in Int /\ d[u].accounts[i].defense \in Int

\* the buttons of the add flow, pressed by u in the session ud
AddButtons(ud, u) ==
    {AddAccountStart(ud, data, authDoc, "none", u),
     AddCancelOverwrite(ud, data, authDoc, "none", u)}
    \cup {AddConfirmOverwrite(ud, data, authDoc, "none", u, name) : name \in NameTexts}

\* C33: the add flow writes to the store only from the awaiting-defense state
\* and only when a non-empty pending username and a pending attack are both
\* present; whatever buttons are pressed and texts sent, no account lacking a
\* username, an attack or a defense is stored, and a defense value that finds
\* a pending field missing ends the flow with its step tag cleared and no
\* write.
C33_AddWritesOnlyComplete ==
    /\ CompleteAccounts(data)
    /\ \A u \in Users :
          LET ud == user_data[u] IN
          /\ \A B \in AddButtons(ud, u) : NoWrite(B)
          /\ \A t \in StaleTexts, f \in DataFaults :
                LET A == HandleAddAccountSteps(ud, data, authDoc, f, u, t) IN
                /\ ~NoWrite(A) =>
                      /\ ud.add_step = "defense"
                      /\ ud.add_temp.username # NoText
                      /\ ud.add_temp.attack # None
                /\ CompleteAccounts(A.save.doc)
                /\ (/\ ud.add_step = "defense"
                    /\ ~ParseFails(Strip(t))
                    /\ u \in AuthorizedIds(authDoc)
                    /\ ud.add_temp.username = NoText \/ ud.add_temp.attack = None)
                      => A.processed /\ A.ud.add_step = NoStep /\ NoWrite(A)

\* The owner pressed an old confirmation button with no flow pending and sent
\* an attack: the defense value finds no pending username, the flow ends and
\* nothing is written.
C33_Witness ==
    LET ud == user_data[Owner]
        R == HandleText(ud, data, authDoc, "none", Owner, TNum)
    IN  /\ ud.add_step = "defense"
        /\ ud.add_temp.username = NoText
        /\ ud.add_temp.attack = Some(1000)
        /\ AccountsIn(data, Owner) # << >>
        /\ R.reply = "lost" /\ R.ud.add_step = NoStep /\ NoWrite(R)

\* u's add flow is in the confirm-overwrite state and u has no edit flow
\* pending
ConfirmPending(u) ==
    /\ user_data[u].add_step = "confirm_overwrite"
    /\ user_data[u].editing_account = NoText /\ user_data[u].edit_step = NoStep

\* a free text of u changes nothing of the add flow and writes nothing
TextChangesNothing(u) ==
    \A t \in Texts \cup StaleTexts, f \in Faults :
        LET R == HandleText(user_data[u], data, authDoc, f, u, t)
        IN  /\ R.ud.add_step = "confirm_overwrite"
            /\ R.ud.add_temp = user_data[u].add_temp
            /\ NoWrite(R)

\* the buttons that neither confirm nor cancel and start no add flow, and
\* /start, as u presses them in the session ud
OtherButtons(ud, u) ==
    {MenuBack(ud, data, authDoc, "none", u),
     HandlePrivateStart(ud, data, authDoc, "none", u),
     AdminMenu(ud, data, authDoc, "none", u),
     AdminBroadcast(ud, data, authDoc, "none", u)}
    \cup {EditAccountStart(ud, data, authDoc, "none", u, name) : name \in ButtonNames(u)}
    \cup {ConfirmDeleteAccount(ud, data, authDoc, "none", u, name) : name \in ButtonNames(u)}

\* C34: while the add flow is in the confirm-overwrite state and no edit flow
\* is pending, a free text changes nothing: the step tag stays
\* confirm-overwrite, the pending username is unchanged and no store write is
\* made; only the confirm and the cancel button leave that state.
C34_OnlyButtonsLeave ==
    \A u \in AuthorizedIds(authDoc) :
        ConfirmPending(u) =>
           /\ TextChangesNothing(u)
           /\ \A B \in OtherButtons(user_data[u], u)
                       \cup {AddAccountStart(user_data[u], data, authDoc, "none", u)} :
                 B.ud.add_step = "confirm_overwrite"

\* C34 as the code has it: a free text changes nothing of the add flow and
\* writes nothing; the confirm button, the cancel button and a new press of
\* add_account (which starts the flow over at the username, the pending
\* username dropped) leave the state, no other button does.
C34_TextKeepsConfirmState ==
    \A u \in AuthorizedIds(authDoc) :
        ConfirmPending(u) =>
           LET ud == user_data[u]
               S == AddAccountStart(ud, data, authDoc, "none", u)
           IN  /\ TextChangesNothing(u)
               /\ \A B \in OtherButtons(ud, u) :
                     B.ud.add_step = "confirm_overwrite" /\ B.ud.add_temp = ud.add_temp
               /\ S.ud.add_step = "username" /\ S.ud.add_temp = NoTemp /\ NoWrite(S)
               /\ \A name \in NameTexts :
                     AddConfirmOverwrite(ud, data, authDoc, "none", u, name).ud.add_step
                        = "attack"
               /\ AddCancelOverwrite(ud, data, authDoc, "none", u).ud.add_step = NoStep

\* The owner is asked whether to overwrite Foo, with no edit flow pending: a
\* number sent now is not taken, and add_account starts the flow over.
C34_Witness ==
    LET ud == user_data[Owner]
        R == HandleText(ud, data, authDoc, "none", Owner, TNum)
    IN  /\ ConfirmPending(Owner)
        /\ ~ud.awaiting_broadcast
        /\ ud.add_temp.username = TFoo
        /\ R.ud = ud /\ R.reply = "none" /\ NoWrite(R)
        /\ AddAccountStart(ud, data, authDoc, "none", Owner).ud.add_step = "username"

\* the answers to the GET of the authorization file with which the read of
\* load_user_data fails: no answer or an error status (transport), a body or
\* a content that does not parse
FailedReads == GetOutcomes \ {"ok", "missing"}

\* C35: the authorization gate fails closed.  When the read of the
\* authorization document fails (transport or parse error), is_user_authorized
\* and is_admin answer true for the owner only, and the failed read never
\* makes update_user_info overwrite the persisted document.
C35_GateFailsClosed ==
    authDoc.exists =>
       \A gl \in FailedReads, u \in Users :
          LET L == TryLoadUserData(authDoc, gl, "ok") IN
          /\ L.raised = "none"
          /\ u \in L.data.authorized_ids <=> u = Owner
          /\ u \in L.data.admin_ids <=> u = Owner
          /\ L.doc = authDoc
          /\ \A gs \in GetOutcomesOf(TRUE), ps \in PutOutcomes :
                TryUpdateUserInfo(authDoc, gl, "ok", gs, ps, u).doc = authDoc

\* the number of the last page of a list of n accounts: the least p >= 1 whose
\* p pages hold n accounts
LastPage(n) == CHOOSE p \in 1..(n + 1) : p * PerPage >= n /\ (p = 1 \/ (p - 1) * PerPage < n)

\* the handler of R drew the paginated list
Rendered(R) == R.reply \in {"accounts_list", "no_accounts"}

\* the renderings u can ask for in the session ud
Renderings(ud, u) ==
    {AccountsPagination(ud, data, authDoc, f, u, button) :
        f \in {"none", "data_load", "auth_load"},
        button \in {"accounts_next", "accounts_prev"}}
    \cup {SendAccountsListForEdit(ud, data, authDoc, f, u) :
             f \in {"none", "data_load", "auth_load"}}

\* C36: after every rendering of the paginated account list the stored cursor
\* accounts_page is at least 1 and at most max(1, ceil(number of accounts / 6)),
\* whatever accounts_next and accounts_prev presses and account deletions came
\* before; menu_back removes the cursor.
C36_CursorWithinPages ==
    \A u \in Users :
        LET ud == user_data[u]
            n == Len(AccountsIn(data, u))
        IN  /\ \A R \in Renderings(ud, u) :
                  Rendered(R) =>
                     /\ R.ud.accounts_page # None
                     /\ 1 <= PageOf(R.ud) /\ PageOf(R.ud) <= LastPage(n)
            /\ u \in AuthorizedIds(authDoc) =>
                  MenuBack(ud, data, authDoc, "none", u).ud.accounts_page = None

\* The owner was shown the second page and deleted an account since: six
\* accounts are left, the cursor still says 2, and Siguiente draws page 1.
C36_Witness ==
    LET ud == user_data[Owner]
        R == AccountsPagination(ud, data, authDoc, "none", Owner, "accounts_next")
    IN  /\ Len(AccountsIn(data, Owner)) = PerPage
        /\ ud.accounts_page = Some(2)
        /\ Rendered(R) /\ R.ud.accounts_page = Some(1)

\* the authorization document as load_user_data reads it
Reads(doc) == LoadUserData(doc, "none").data

RequestActions == {"accept", "accept_admin", "deny"}

\* C37: handling an access request.  The deny action, and any action pressed
\* by a caller who is not an administrator, leave the authorization document
\* unchanged; the accept action adds the target to the authorized set without
\* adding it to the admin set; only accept_admin adds the target to the admin
\* set.
C37_RequestFrame ==
    \A u \in Users, target \in Users, f \in AuthFaults, action \in RequestActions :
        LET R == AdminRequest(user_data[u], data, authDoc, f, u, action, target)
            before == Reads(authDoc)
            after == Reads(R.adoc)
            answered == f = "none" /\ u \in before.admin_ids
        IN  /\ R.ud = user_data[u] /\ NoWrite(R)
            /\ (action = "deny" \/ u \notin before.admin_ids) => after = before
            /\ action = "accept" =>
                  /\ answered => target \in after.authorized_ids
                  /\ target \in after.admin_ids <=> target \in before.admin_ids
            /\ target \in after.admin_ids \ before.admin_ids => action = "accept_admin"
            /\ (action = "accept_admin" /\ answered) =>
                  target \in after.admin_ids /\ target \in after.authorized_ids

\* The other user was accepted as a normal user: pressing accept_admin on
\* their own request changes nothing, the owner's accept leaves them out of
\* the admin set, and the owner's accept_admin puts them in.
C37_Witness ==
    LET A == AdminRequest(user_data[Owner], data, authDoc, "none", Owner, "accept", Member)
        P == AdminRequest(user_data[Owner], data, authDoc, "none", Owner, "accept_admin", Member)
        S == AdminRequest(user_data[Member], data, authDoc, "none", Member, "accept_admin", Member)
    IN  /\ authDoc.exists
        /\ Member \in authDoc.authorized_ids /\ Member \notin authDoc.admin_ids
        /\ S.reply = "no_permission" /\ S.adoc = authDoc
        /\ A.reply = "request_accepted" /\ Member \notin A.adoc.admin_ids
        /\ Member \in P.adoc.admin_ids

====
